---- MODULE Spec2Model ----
(***************************************************************************)
(* Portfolio ledger of the trading system: DataManager.record_deposit,     *)
(* record_withdrawal, record_buy and record_sell over the holdings, trades *)
(* and capital_flows tables of PortfolioRepository.                        *)
(*                                                                         *)
(* Every PortfolioRepository method opens its own connection and commits   *)
(* before it returns, so one repository call is one atomic step and a      *)
(* ledger operation is a sequence of such steps.  Callers are the CLI (one *)
(* caller) and the HTTP API, whose handlers share one DataManager and run  *)
(* on a thread pool (several callers).                                     *)
(*                                                                         *)
(* Quantities, prices and fees are drawn from small integer sets; averages *)
(* and realized P&L are exact rationals [n, d] in lowest terms, so the     *)
(* arithmetic is the one the code writes down, without rounding.           *)
(***************************************************************************)
EXTENDS Integers, Sequences, FiniteSets, TLC

VARIABLES
    holdings,        \* rows of the holdings table
    nextHoldingId,   \* AUTOINCREMENT counter of holdings.id
    trades,          \* rows of the trades table, in insertion order
    flows,           \* rows of the capital_flows table, in insertion order
    pc,              \* per caller: position inside the operation it runs
    call,            \* per caller: arguments, locals and result of that operation
    bot,             \* TradingBot.run: its position in the loop, its locals, its last log line
    portfolio,       \* MockTrader.portfolio
    now              \* the clock that datetime.now() and SQLite's 'now' read

vars == <<holdings, nextHoldingId, trades, flows, pc, call, bot, portfolio, now>>

db == <<holdings, nextHoldingId, trades, flows>>

-----------------------------------------------------------------------------
(* Bounds and input domains *)

\* rows the ledger may hold, trades and capital flows together
MaxRows == 3

\* days the clock may run
MaxDate == 2

\* trades the MockTrader may execute
MaxExecuted == 2

Callers == {"c1", "c2"}

Symbols == {"AAPL", "aapl"}

Quantities == {0, 1, 2}

Prices == {0, 1, 3}

Fees == {1}

Amounts == {-1, 0, 1, 2}

-----------------------------------------------------------------------------
(* Exact rationals *)

Abs(x) == IF x < 0 THEN -x ELSE x

RECURSIVE GCD(_, _)
GCD(a, b) == IF b = 0 THEN a ELSE GCD(b, a % b)

Rat(n, d) ==
    LET g == GCD(Abs(n), d)
    IN  IF g = 0 THEN [n |-> 0, d |-> 1]
        ELSE [n |-> (IF n < 0 THEN -(Abs(n) \div g) ELSE n \div g), d |-> d \div g]

RatInt(i) == [n |-> i, d |-> 1]

RatAdd(x, y) == Rat(x.n * y.d + y.n * x.d, x.d * y.d)

RatSub(x, y) == Rat(x.n * y.d - y.n * x.d, x.d * y.d)

RatMulInt(x, i) == Rat(x.n * i, x.d)

RatDivInt(x, i) == Rat(x.n, x.d * i)

\* x / y for y > 0
RatDiv(x, y) == Rat(x.n * y.d, x.d * y.n)

RatMul(x, y) == Rat(x.n * y.n, x.d * y.d)

RatLeq(x, y) == x.n * y.d <= y.n * x.d

RatMin(x, y) == IF RatLeq(x, y) THEN x ELSE y

RatMax(x, y) == IF RatLeq(x, y) THEN y ELSE x

\* A point in time: the calendar date as a day number, and the time of day as a
\* slot of that day
Epoch == [date |-> 0, time |-> 0]

\* time slots in a day
SlotsPerDay == 2

\* the clock one slot later
Later(t) ==
    IF t.time + 1 < SlotsPerDay THEN [date |-> t.date, time |-> t.time + 1]
    ELSE [date |-> t.date + 1, time |-> 0]

\* datetime.now().isoformat(): the text 'YYYY-MM-DDTHH:MM:SS.ffffff'.  The process
\* runs in UTC, where datetime.now() and SQLite's 'now' read the same time.
IsoFormat(t) == [date |-> t.date, sep |-> "T", time |-> t.time]

\* SQLite datetime('now', '-{days} days'): the text 'YYYY-MM-DD HH:MM:SS'
SqlDatetime(t, days) == [date |-> t.date - days, sep |-> " ", time |-> t.time]

\* TEXT comparison: the date part, then the separator (' ' sorts before 'T'),
\* then the time part
TextLeq(a, b) ==
    \/ a.date < b.date
    \/ /\ a.date = b.date
       /\ \/ a.sep = " " /\ b.sep = "T"
          \/ a.sep = b.sep /\ a.time <= b.time

\* SQL NULL / Python None in a REAL column
Null == [n |-> 0, d |-> 0]

-----------------------------------------------------------------------------
(* Rows and lookups *)

\* str.upper() on the symbols of the model
Upper(s) == IF s = "aapl" THEN "AAPL" ELSE s

\* Python None for "no holding"
NoHolding == [id |-> 0, symbol |-> "", quantity |-> 0, avg_entry_price |-> Null]

NoCall == [op |-> "none", symbol |-> "", quantity |-> 0, price |-> 0, fees |-> 0,
           trade_id |-> 0, holding |-> NoHolding, status |-> "none"]

\* DataManager._get_holding over PortfolioRepository.get_holdings
GetHolding(rows, symbol) ==
    IF \E r \in rows : r.symbol = symbol
    THEN CHOOSE r \in rows : r.symbol = symbol
    ELSE NoHolding

UsedTradeIds == {trades[i].trade_id : i \in 1..Len(trades)}

-----------------------------------------------------------------------------
(* PortfolioRepository: one call, one committed transaction *)

SaveCapitalFlowDepositsOnly(rows, flow) ==
    IF flow.type = "WITHDRAWAL" THEN rows ELSE Append(rows, flow)

\* save_capital_flow: INSERT INTO capital_flows
SaveCapitalFlow(rows, flow) == Append(rows, flow)

TradeIdNeverTaken(rows, trade_id) == FALSE

\* save_trade: INSERT INTO trades; trade_id is UNIQUE
TradeIdTaken(rows, trade_id) == \E i \in 1..Len(rows) : rows[i].trade_id = trade_id

SaveTrade(rows, trade) == Append(rows, trade)

\* PortfolioTracker.save_trade: INSERT OR REPLACE INTO trades, on the same table of
\* the same database file: a row with the trade_id is deleted, the new row is added
\* with the columns the statement does not name (fees, notes, realized_pnl) NULL;
\* a NULL fee is written 0 here
InsertOrReplaceTrade(rows, trade_data) ==
    LET kept == SelectSeq(rows, LAMBDA row : row.trade_id # trade_data.trade_id)
    IN  Append(kept,
               [trade_id |-> trade_data.trade_id, timestamp |-> trade_data.timestamp,
                symbol |-> trade_data.symbol,
                action |-> trade_data.action, quantity |-> trade_data.quantity,
                price |-> trade_data.price, total_value |-> trade_data.total_value,
                net_amount |-> trade_data.net_amount, fees |-> 0,
                realized_pnl |-> Null])

UpdateHoldingQuantityOnly(rows, holding_id, updates) ==
    {IF r.id = holding_id THEN [r EXCEPT !.quantity = updates.quantity] ELSE r : r \in rows}

\* update_holding: UPDATE holdings SET <updates> WHERE id = ?
UpdateHolding(rows, holding_id, updates) ==
    {IF r.id = holding_id
     THEN [f \in DOMAIN r |-> IF f \in DOMAIN updates THEN updates[f] ELSE r[f]]
     ELSE r : r \in rows}

\* create_holding: INSERT INTO holdings; symbol is UNIQUE
SymbolTaken(rows, symbol) == \E r \in rows : r.symbol = symbol

CreateHolding(rows, id, position) ==
    rows \cup {[id |-> id, symbol |-> position.symbol,
                quantity |-> position.quantity,
                avg_entry_price |-> position.avg_entry_price]}

DeleteHoldingEveryRow(rows, holding_id) == {}

\* delete_holding: DELETE FROM holdings WHERE id = ?
DeleteHolding(rows, holding_id) == {r \in rows : r.id # holding_id}

-----------------------------------------------------------------------------
(* DataManager: the values the operations compute *)

\* record_deposit, record_withdrawal: the assert
ValidAmount(amount) == amount > 0

ValidTradeQuantityOnly(quantity, price) == quantity > 0

\* record_buy, record_sell: the two asserts
ValidTrade(quantity, price) == quantity > 0 /\ price > 0

BuyTrade(trade_id, symbol, quantity, price, fees) ==
    [trade_id |-> trade_id, timestamp |-> IsoFormat(now), symbol |-> Upper(symbol),
     action |-> "BUY",
     quantity |-> quantity, price |-> price, total_value |-> quantity * price,
     net_amount |-> quantity * price + fees, fees |-> fees, realized_pnl |-> Null]

RealizedPnlWithoutFees(holding, quantity, price, fees) ==
    RatSub(RatInt(quantity * price), RatMulInt(holding.avg_entry_price, quantity))

\* record_sell: realized_pnl = total_value - cost_basis - fees
RealizedPnl(holding, quantity, price, fees) ==
    RatSub(RatSub(RatInt(quantity * price),
                  RatMulInt(holding.avg_entry_price, quantity)),
           RatInt(fees))

SellTrade(trade_id, symbol, quantity, price, fees, holding) ==
    [trade_id |-> trade_id, timestamp |-> IsoFormat(now), symbol |-> Upper(symbol),
     action |-> "SELL",
     quantity |-> quantity, price |-> price, total_value |-> quantity * price,
     net_amount |-> quantity * price - fees, fees |-> fees,
     realized_pnl |-> RealizedPnl(holding, quantity, price, fees)]

SellCheckOffByOne(holding, quantity) ==
    IF holding = NoHolding THEN "NoSuchHolding"
    ELSE IF holding.quantity <= quantity THEN "InsufficientQuantity"
    ELSE "ok"

\* record_sell's state checks, in the order the code makes them
SellCheck(holding, quantity) ==
    IF holding = NoHolding THEN "NoSuchHolding"
    ELSE IF holding.quantity < quantity THEN "InsufficientQuantity"
    ELSE "ok"

BuyUpdatesUnweighted(holding, quantity, price) ==
    [quantity |-> holding.quantity + quantity,
     avg_entry_price |-> RatDivInt(RatAdd(holding.avg_entry_price, RatInt(price)), 2)]

\* _update_holding_after_buy, the branch that finds a holding
BuyUpdates(holding, quantity, price) ==
    LET old_qty == holding.quantity
        old_price == holding.avg_entry_price
        new_qty == old_qty + quantity
    IN  [quantity |-> new_qty,
         avg_entry_price |->
             RatDivInt(RatAdd(RatMulInt(old_price, old_qty), RatInt(quantity * price)),
                       new_qty)]

\* _update_holding_after_buy, the branch that finds none
NewPosition(symbol, quantity, price) ==
    [symbol |-> symbol, quantity |-> quantity, avg_entry_price |-> RatInt(price)]

\* _update_holding_after_buy: the holdings table after its one write
HoldingsAfterBuy(rows, id, holding, symbol, quantity, price) ==
    IF holding # NoHolding
    THEN UpdateHolding(rows, holding.id, BuyUpdates(holding, quantity, price))
    ELSE CreateHolding(rows, id, NewPosition(symbol, quantity, price))

HoldingsAfterSellWritesSold(rows, holding, quantity) ==
    LET new_qty == holding.quantity - quantity
    IN  IF new_qty <= 0
        THEN DeleteHolding(rows, holding.id)
        ELSE UpdateHolding(rows, holding.id, [quantity |-> quantity])

HoldingsAfterSellKeepsZero(rows, holding, quantity) ==
    LET new_qty == holding.quantity - quantity
    IN  IF new_qty < 0
        THEN DeleteHolding(rows, holding.id)
        ELSE UpdateHolding(rows, holding.id, [quantity |-> new_qty])

\* _update_holding_after_sell: the holdings table after its one write
HoldingsAfterSell(rows, holding, quantity) ==
    LET new_qty == holding.quantity - quantity
    IN  IF new_qty <= 0
        THEN DeleteHolding(rows, holding.id)
        ELSE UpdateHolding(rows, holding.id, [quantity |-> new_qty])

\* The frame of a call: its arguments (a capital flow's amount is held in
\* quantity), the trade_id it generated, the holding it last read, how it ended
Frame(op, symbol, quantity, price, fees, trade_id, holding, status) ==
    [op |-> op, symbol |-> symbol, quantity |-> quantity, price |-> price,
     fees |-> fees, trade_id |-> trade_id, holding |-> holding, status |-> status]

\* calls that have passed their checks and not yet written their Trade
PendingTrades == Cardinality({q \in Callers : pc[q] = "sell_save"})

RoomForRow == Len(trades) + Len(flows) + PendingTrades < MaxRows

-----------------------------------------------------------------------------
(* DataManager.get_portfolio_value: the values it computes *)

\* price_feed.get_current_price: a price, or None
Unavailable == [some |-> FALSE, price |-> 0]

Quote(price) == [some |-> TRUE, price |-> price]

QuotedPrices == {2, 5}

PriceQuotes == {Unavailable} \cup {Quote(x) : x \in QuotedPrices}

\* Python's `current_price or 0`
OrZero(current_price) == IF current_price.some THEN current_price.price ELSE 0

RECURSIVE CapitalFlowTotalAnyType(_, _)
CapitalFlowTotalAnyType(rows, type) ==
    IF rows = <<>> THEN 0
    ELSE Head(rows).amount + CapitalFlowTotalAnyType(Tail(rows), type)

RECURSIVE CapitalFlowTotal(_, _)
\* get_capital_flow_summary: SELECT COALESCE(SUM(amount), 0) ... WHERE type = ?
CapitalFlowTotal(rows, type) ==
    IF rows = <<>> THEN 0
    ELSE (IF Head(rows).type = type THEN Head(rows).amount ELSE 0)
         + CapitalFlowTotal(Tail(rows), type)

\* get_portfolio_value: one entry of positions_data
PositionData(pos, current_price) ==
    LET market_value == pos.quantity * OrZero(current_price)
        cost_basis == RatMulInt(pos.avg_entry_price, pos.quantity)
        unrealized_pnl == RatSub(RatInt(market_value), cost_basis)
    IN  [symbol |-> pos.symbol, quantity |-> pos.quantity,
         avg_entry_price |-> pos.avg_entry_price, current_price |-> current_price,
         market_value |-> market_value, cost_basis |-> cost_basis,
         unrealized_pnl |-> unrealized_pnl,
         unrealized_pnl_pct |->
             IF cost_basis.n > 0
             THEN RatMulInt(RatDiv(unrealized_pnl, cost_basis), 100)
             ELSE RatInt(0)]

RECURSIVE PositionsValue(_)
\* get_portfolio_value: positions_value += market_value, over the loop
PositionsValue(positions_data) ==
    IF positions_data = {} THEN 0
    ELSE LET d == CHOOSE x \in positions_data : TRUE
         IN  d.market_value + PositionsValue(positions_data \ {d})

\* get_portfolio_value: the dictionary it returns
PortfolioValue(deposits, withdrawals, positions, quotes) ==
    LET net_contributed == deposits - withdrawals
        positions_data == {PositionData(pos, quotes[pos.symbol]) : pos \in positions}
        positions_value == PositionsValue(positions_data)
        total_equity == positions_value
        total_pnl == total_equity - net_contributed
    IN  [total_equity |-> total_equity, positions_value |-> positions_value,
         total_pnl |-> total_pnl,
         total_pnl_pct |-> IF net_contributed > 0
                           THEN RatMulInt(Rat(total_pnl, net_contributed), 100)
                           ELSE RatInt(0),
         num_positions |-> Cardinality(positions_data),
         positions |-> positions_data,
         net_contributed |-> net_contributed,
         total_deposits |-> deposits, total_withdrawals |-> withdrawals]

\* no value computed yet
NoValue == PortfolioValue(0, 0, {}, <<>>)

\* The frame of a get_portfolio_value call: what it has read so far, and its result
ValueFrame(deposits, withdrawals, positions, value, status) ==
    [op |-> "VALUE", symbol |-> "", quantity |-> 0, price |-> 0, fees |-> 0,
     trade_id |-> 0, holding |-> NoHolding, status |-> status,
     deposits |-> deposits, withdrawals |-> withdrawals, positions |-> positions,
     value |-> value]

-----------------------------------------------------------------------------
(* The trading loop: DecisionManager, RiskManager, CapitalAllocator and     *)
(* MockTrader as TradingBot.run calls them.  market_bias and confidence are *)
(* in tenths; money, sizes and fractions are exact rationals.               *)

\* abs(market_bias) > 0.3, in tenths
EntryThreshold == 3

\* market_bias < -0.2, market_bias > 0.2, in tenths
CloseThreshold == 2

\* Python None for a local that holds a dictionary
None == [none |-> TRUE]

StrongConvictionInclusive(market_bias) == Abs(market_bias) >= EntryThreshold

\* make_decision: if abs(market_bias) > 0.3
StrongConviction(market_bias) == Abs(market_bias) > EntryThreshold

\* make_decision: the decision it returns, without the data it passes through
MakeDecision(market_bias, current_position) ==
    LET default == [action |-> "HOLD", confidence |-> 0,
                    reason |-> "Insufficient conviction for trade",
                    market_bias |-> market_bias, size |-> Null]
        entry == IF StrongConviction(market_bias)
                 THEN IF market_bias > 0
                      THEN [default EXCEPT !.action = "BUY", !.confidence = market_bias,
                                           !.reason = "Strong bullish conviction"]
                      ELSE [default EXCEPT !.action = "SELL",
                                           !.confidence = Abs(market_bias),
                                           !.reason = "Strong bearish conviction"]
                 ELSE default
    IN  IF current_position = None THEN entry
        ELSE IF current_position.side = "LONG"
        THEN IF market_bias < -CloseThreshold
             THEN [entry EXCEPT !.action = "CLOSE",
                                !.reason = "Closing long position due to bearish signals"]
             ELSE entry
        ELSE IF current_position.side = "SHORT"
        THEN IF market_bias > CloseThreshold
             THEN [entry EXCEPT !.action = "CLOSE",
                                !.reason = "Closing short position due to bullish signals"]
             ELSE entry
        ELSE entry

\* run: current_position, from the first of positions_data with the symbol
CurrentPosition(positions_data, symbol) ==
    IF \E i \in 1..Len(positions_data) : positions_data[i].symbol = symbol
    THEN LET i == CHOOSE k \in 1..Len(positions_data) :
                     /\ positions_data[k].symbol = symbol
                     /\ \A j \in 1..(k - 1) : positions_data[j].symbol # symbol
             pos == positions_data[i]
         IN  [symbol |-> pos.symbol,
              side |-> IF pos.qty > 0 THEN "LONG" ELSE "SHORT",
              qty |-> Abs(pos.qty),
              avg_entry_price |-> pos.avg_entry_price,
              market_value |-> pos.market_value]
    ELSE None

\* run: current_drawdown
Drawdown(cash, equity) ==
    LET initial_equity == cash + equity
    IN  IF initial_equity > 0
        THEN RatMax(RatInt(0), Rat(initial_equity - equity, initial_equity))
        ELSE RatInt(0)

\* run: portfolio_status
PortfolioStatus(account_data, positions_data) ==
    [cash |-> account_data.cash, equity |-> account_data.equity,
     drawdown |-> Drawdown(account_data.cash, account_data.equity),
     positions |-> {positions_data[i] : i \in 1..Len(positions_data)}]

DrawdownAbove(drawdown, max_drawdown) ==
    RatLeq(max_drawdown, drawdown) /\ drawdown # max_drawdown

\* validate_trade: if portfolio['drawdown'] >= self.max_drawdown
DrawdownExceeded(drawdown, max_drawdown) == RatLeq(max_drawdown, drawdown)

\* validate_trade
ValidateTrade(trade, status, max_drawdown) ==
    IF DrawdownExceeded(status.drawdown, max_drawdown)
    THEN [valid |-> FALSE,
          reason |-> [text |-> "Maximum drawdown of % exceeded",
                      percent |-> RatMulInt(max_drawdown, 100)]]
    ELSE [valid |-> TRUE,
          reason |-> [text |-> "Trade meets risk parameters", percent |-> Null]]

ValidatesOpeningOnly(decision) == decision.action \in {"BUY", "SELL"}

\* run: if decision['action'] != 'HOLD'
NeedsValidation(decision) == decision.action # "HOLD"

ApprovedAlways(risk_validation) == TRUE

\* run: if not risk_validation['valid']: ... continue
Approved(risk_validation) == risk_validation.valid

RECURSIVE TotalExposure(_)
\* calculate_trade_size: sum(pos['size'] * pos['entry_price'] ...)
TotalExposure(current_positions) ==
    IF current_positions = {} THEN RatInt(0)
    ELSE LET pos == CHOOSE x \in current_positions : TRUE
         IN  RatAdd(RatMul(pos.size, pos.entry_price),
                    TotalExposure(current_positions \ {pos}))

\* calculate_trade_size; pos['size'] raises KeyError on a position without that key
CalculateTradeSize(available_capital, current_positions, config) ==
    IF \E pos \in current_positions : {"size", "entry_price"} \ DOMAIN pos # {}
    THEN [raised |-> "KeyError", size |-> Null]
    ELSE LET remaining_capital == RatSub(RatInt(available_capital),
                                         TotalExposure(current_positions))
         IN  [raised |-> "none",
              size |-> RatMin(RatMul(remaining_capital, config.risk_per_trade),
                              config.max_position_size)]

\* calculate_position_size; `not all([...])` is true when an input is 0 or None
CalculatePositionSize(capital, entry_price, stop_loss_price, stop_loss) ==
    IF capital = 0 \/ entry_price = 0 \/ stop_loss_price = 0 THEN RatInt(0)
    ELSE LET risk_amount == RatMulInt(stop_loss, capital)
             price_risk == Abs(entry_price - stop_loss_price)
         IN  IF price_risk = 0 THEN RatInt(0)
             ELSE RatDivInt(risk_amount, price_risk)

CheckStopLossStrict(position, current_price, stop_loss) ==
    IF position = None THEN FALSE
    ELSE LET entry_price == RatInt(position.entry_price)
             low == RatMul(entry_price, RatSub(RatInt(1), stop_loss))
             high == RatMul(entry_price, RatAdd(RatInt(1), stop_loss))
         IN  IF position.side = "LONG"
             THEN ~RatLeq(low, RatInt(current_price))
             ELSE ~RatLeq(RatInt(current_price), high)

\* check_stop_loss
CheckStopLoss(position, current_price, stop_loss) ==
    IF position = None THEN FALSE
    ELSE LET entry_price == RatInt(position.entry_price)
         IN  IF position.side = "LONG"
             THEN RatLeq(RatInt(current_price),
                         RatMul(entry_price, RatSub(RatInt(1), stop_loss)))
             ELSE RatLeq(RatMul(entry_price, RatAdd(RatInt(1), stop_loss)),
                         RatInt(current_price))

\* check_take_profit
CheckTakeProfit(position, current_price, take_profit) ==
    IF position = None THEN FALSE
    ELSE LET entry_price == RatInt(position.entry_price)
         IN  IF position.side = "LONG"
             THEN RatLeq(RatMul(entry_price, RatAdd(RatInt(1), take_profit)),
                         RatInt(current_price))
             ELSE RatLeq(RatInt(current_price),
                         RatMul(entry_price, RatSub(RatInt(1), take_profit)))

ScaleFactorFlat(market_conditions) == RatInt(1)

\* adjust_position_sizes: scale_factor = {...}.get(market_conditions, 1.0)
ScaleFactor(market_conditions) ==
    IF market_conditions = "highly_volatile" THEN Rat(1, 2)
    ELSE IF market_conditions = "normal" THEN RatInt(1)
    ELSE IF market_conditions = "trending" THEN Rat(6, 5)
    ELSE RatInt(1)

\* adjust_position_sizes: the adjustments it returns, keyed by symbol
AdjustPositionSizes(positions, market_conditions) ==
    LET scale_factor == ScaleFactor(market_conditions)
    IN  [symbol \in DOMAIN positions |->
            [current_size |-> positions[symbol].size,
             adjusted_size |-> RatMul(positions[symbol].size, scale_factor),
             adjustment_factor |-> scale_factor]]

RECURSIVE PositionValue(_, _)
\* _update_portfolio_value: sum(pos['size'] * current_price ...)
PositionValue(positions, current_price) ==
    IF positions = {} THEN RatInt(0)
    ELSE LET pos == CHOOSE x \in positions : TRUE
         IN  RatAdd(RatMulInt(pos.size, current_price),
                    PositionValue(positions \ {pos}, current_price))

\* execute_trade: the trade_result of a decision that is not HOLD
TradeResult(book, decision, symbol, current_price) ==
    LET max_size == RatDivInt(book.cash, current_price)
        asked == IF decision.size = Null THEN max_size ELSE decision.size
        held == {pos \in book.positions : pos.symbol = symbol}
        size == IF decision.action \in {"BUY", "SELL"} THEN RatMin(max_size, asked)
                ELSE IF decision.action = "CLOSE" /\ held # {}
                THEN (CHOOSE pos \in held : TRUE).size
                ELSE RatInt(0)
    IN  [symbol |-> symbol, action |-> decision.action, price |-> current_price,
         size |-> size, value |-> RatMulInt(size, current_price),
         reason |-> decision.reason]

NoAction == [status |-> "no_action", message |-> "Holding position"]

ExecuteTradeRecordsHold(book, decision, symbol, current_price) ==
    [book EXCEPT !.trades = Append(book.trades,
                                   TradeResult(book, decision, symbol, current_price))]

\* execute_trade: MockTrader.portfolio after the call
ExecuteTrade(book, decision, symbol, current_price) ==
    IF decision.action = "HOLD" THEN book
    ELSE LET trade_result == TradeResult(book, decision, symbol, current_price)
             held == {pos \in book.positions : pos.symbol = symbol}
             others == book.positions \ held
             cash == IF decision.action = "BUY"
                     THEN RatSub(book.cash, trade_result.value)
                     ELSE IF decision.action = "SELL"
                     THEN RatAdd(book.cash, trade_result.value)
                     ELSE IF decision.action = "CLOSE" /\ held # {}
                     THEN IF (CHOOSE pos \in held : TRUE).side = "LONG"
                          THEN RatAdd(book.cash, trade_result.value)
                          ELSE RatSub(book.cash, trade_result.value)
                     ELSE book.cash
             positions ==
                 IF decision.action \in {"BUY", "SELL"}
                 THEN others \cup {[symbol |-> symbol,
                                    side |-> IF decision.action = "BUY" THEN "LONG"
                                             ELSE "SHORT",
                                    size |-> trade_result.size,
                                    entry_price |-> RatInt(current_price)]}
                 ELSE IF decision.action = "CLOSE" THEN others
                 ELSE book.positions
         IN  [cash |-> cash, positions |-> positions,
              total_value |-> RatAdd(cash, PositionValue(positions, current_price)),
              trades |-> Append(book.trades, trade_result)]

\* MockTrader.__init__
NewPortfolio(config) ==
    [cash |-> config.initial_capital, positions |-> {},
     total_value |-> config.initial_capital, trades |-> <<>>]

\* no MockTrader exists: the CLI and the HTTP API build none
NoPortfolio == [cash |-> Null, positions |-> {}, total_value |-> Null, trades |-> <<>>]

NoDecision == [action |-> "none", confidence |-> 0, reason |-> "", market_bias |-> 0,
               size |-> Null]

NoValidation == [valid |-> FALSE, reason |-> [text |-> "", percent |-> Null]]

NoStatus == [cash |-> 0, equity |-> 0, drawdown |-> Null, positions |-> {}]

NoLog == [level |-> "none", message |-> "", detail |-> None]

\* The locals of one iteration of run, as they are before anything is assigned
LoopFrame(at, config, log) ==
    [pc |-> at, config |-> config, symbol |-> "AAPL", current_price |-> Unavailable,
     current_position |-> None, portfolio_status |-> NoStatus,
     decision |-> NoDecision, risk_validation |-> NoValidation, log |-> log]

\* no TradingBot exists
NoBot == LoopFrame("none", None, NoLog)

-----------------------------------------------------------------------------
(* Initial state: the tables as _init_tables creates them *)

Init ==
    /\ holdings = {}
    /\ nextHoldingId = 1
    /\ trades = <<>>
    /\ flows = <<>>
    /\ pc = [p \in Callers |-> "idle"]
    /\ call = [p \in Callers |-> NoCall]
    /\ bot = NoBot
    /\ portfolio = NoPortfolio
    /\ now = Epoch

-----------------------------------------------------------------------------
(* Operations.  A call ends in pc "done": its frame then holds what it was  *)
(* asked, the trade_id it generated and its status ("ok" or the error       *)
(* raised); the holding it read is dead.  Return hands the status to the    *)
(* caller.                                                                  *)

Ends(p, status) ==
    /\ pc' = [pc EXCEPT ![p] = "done"]
    /\ call' = [call EXCEPT ![p] = Frame(call[p].op, call[p].symbol, call[p].quantity,
                                         call[p].price, call[p].fees, call[p].trade_id,
                                         NoHolding, status)]

EndsAtOnce(p, op, symbol, quantity, price, fees, trade_id, status) ==
    /\ pc' = [pc EXCEPT ![p] = "done"]
    /\ call' = [call EXCEPT ![p] =
                   Frame(op, symbol, quantity, price, fees, trade_id, NoHolding, status)]

RecordFlow(p, type, amount) ==
    /\ pc[p] = "idle"
    /\ IF ~ValidAmount(amount)
       THEN /\ EndsAtOnce(p, type, "", amount, 0, 0, 0, "AssertionError")
            /\ UNCHANGED flows
       ELSE /\ RoomForRow
            /\ flows' = SaveCapitalFlow(flows, [type |-> type, amount |-> amount])
            /\ EndsAtOnce(p, type, "", amount, 0, 0, 0, "ok")
    /\ UNCHANGED <<holdings, nextHoldingId, trades>>
    /\ UNCHANGED <<bot, portfolio, now>>

RecordDeposit(p, amount) == RecordFlow(p, "DEPOSIT", amount)

RecordWithdrawal(p, amount) == RecordFlow(p, "WITHDRAWAL", amount)

\* record_buy up to and including save_trade
RecordBuy(p, symbol, quantity, price, fees, trade_id) ==
    /\ pc[p] = "idle"
    /\ IF ~ValidTrade(quantity, price)
       THEN /\ EndsAtOnce(p, "BUY", symbol, quantity, price, fees, 0, "AssertionError")
            /\ UNCHANGED trades
       ELSE IF TradeIdTaken(trades, trade_id)
       THEN /\ EndsAtOnce(p, "BUY", symbol, quantity, price, fees, trade_id, "IntegrityError")
            /\ UNCHANGED trades
       ELSE /\ RoomForRow
            /\ trades' = SaveTrade(trades, BuyTrade(trade_id, symbol, quantity, price, fees))
            /\ pc' = [pc EXCEPT ![p] = "buy_read"]
            /\ call' = [call EXCEPT ![p] =
                           Frame("BUY", symbol, quantity, price, fees, trade_id, NoHolding, "none")]
    /\ UNCHANGED <<holdings, nextHoldingId, flows>>
    /\ UNCHANGED <<bot, portfolio, now>>

\* _update_holding_after_buy: holding = self._get_holding(symbol)
BuyGetHolding(p) ==
    /\ pc[p] = "buy_read"
    /\ call' = [call EXCEPT ![p].holding = GetHolding(holdings, call[p].symbol)]
    /\ pc' = [pc EXCEPT ![p] = "buy_write"]
    /\ UNCHANGED <<holdings, nextHoldingId, trades, flows>>
    /\ UNCHANGED <<bot, portfolio, now>>

\* _update_holding_after_buy: update_holding or create_holding, then return
BuyWriteHolding(p) ==
    /\ pc[p] = "buy_write"
    /\ LET c == call[p]
       IN  IF c.holding = NoHolding /\ SymbolTaken(holdings, c.symbol)
           THEN /\ Ends(p, "HoldingIntegrityError")
                /\ UNCHANGED <<holdings, nextHoldingId>>
           ELSE /\ holdings' = HoldingsAfterBuy(holdings, nextHoldingId, c.holding,
                                                c.symbol, c.quantity, c.price)
                /\ nextHoldingId' = IF c.holding = NoHolding THEN nextHoldingId + 1
                                    ELSE nextHoldingId
                /\ Ends(p, "ok")
    /\ UNCHANGED <<trades, flows>>
    /\ UNCHANGED <<bot, portfolio, now>>

\* record_sell up to and including the checks on the holding
RecordSell(p, symbol, quantity, price, fees) ==
    /\ pc[p] = "idle"
    /\ IF ~ValidTrade(quantity, price)
       THEN EndsAtOnce(p, "SELL", symbol, quantity, price, fees, 0, "AssertionError")
       ELSE LET holding == GetHolding(holdings, symbol)
                status == SellCheck(holding, quantity)
            IN  IF status # "ok"
                THEN EndsAtOnce(p, "SELL", symbol, quantity, price, fees, 0, status)
                ELSE /\ RoomForRow
                     /\ pc' = [pc EXCEPT ![p] = "sell_save"]
                     /\ call' = [call EXCEPT ![p] =
                                    Frame("SELL", symbol, quantity, price, fees, 0, holding, "none")]
    /\ UNCHANGED <<holdings, nextHoldingId, trades, flows>>
    /\ UNCHANGED <<bot, portfolio, now>>

\* record_sell: build the trade from the holding read by the checks, save_trade
SellSaveTrade(p, trade_id) ==
    /\ pc[p] = "sell_save"
    /\ LET c == call[p]
       IN  IF TradeIdTaken(trades, trade_id)
           THEN /\ EndsAtOnce(p, "SELL", c.symbol, c.quantity, c.price, c.fees, trade_id,
                              "IntegrityError")
                /\ UNCHANGED trades
           ELSE /\ trades' = SaveTrade(trades, SellTrade(trade_id, c.symbol, c.quantity,
                                                         c.price, c.fees, c.holding))
                /\ pc' = [pc EXCEPT ![p] = "sell_read"]
                /\ call' = [call EXCEPT ![p].trade_id = trade_id]
    /\ UNCHANGED <<holdings, nextHoldingId, flows>>
    /\ UNCHANGED <<bot, portfolio, now>>

\* _update_holding_after_sell: holding = self._get_holding(symbol); holding['quantity']
SellGetHolding(p) ==
    /\ pc[p] = "sell_read"
    /\ LET holding == GetHolding(holdings, call[p].symbol)
       IN  IF holding = NoHolding
           THEN Ends(p, "TypeError")
           ELSE /\ call' = [call EXCEPT ![p].holding = holding]
                /\ pc' = [pc EXCEPT ![p] = "sell_write"]
    /\ UNCHANGED <<holdings, nextHoldingId, trades, flows>>
    /\ UNCHANGED <<bot, portfolio, now>>

\* _update_holding_after_sell: delete_holding or update_holding, then return
SellWriteHolding(p) ==
    /\ pc[p] = "sell_write"
    /\ holdings' = HoldingsAfterSell(holdings, call[p].holding, call[p].quantity)
    /\ Ends(p, "ok")
    /\ UNCHANGED <<nextHoldingId, trades, flows>>
    /\ UNCHANGED <<bot, portfolio, now>>

\* The caller takes the result or the exception; the frame is gone
Return(p) ==
    /\ pc[p] = "done"
    /\ pc' = [pc EXCEPT ![p] = "idle"]
    /\ call' = [call EXCEPT ![p] = NoCall]
    /\ UNCHANGED <<holdings, nextHoldingId, trades, flows>>
    /\ UNCHANGED <<bot, portfolio, now>>

\* The process dies, or a repository call raises sqlite3.OperationalError, inside
\* record_buy/record_sell: what was committed stays, the rest never runs.
Fault(p) ==
    /\ pc[p] \notin {"idle", "done"}
    /\ Ends(p, "fault")
    /\ UNCHANGED <<holdings, nextHoldingId, trades, flows>>
    /\ UNCHANGED <<bot, portfolio, now>>

\* uuid4 either yields an id no row carries, or one a row carries already
TradeIdChoices == UsedTradeIds \cup {Len(trades) + 1}

\* PortfolioTracker.save_trade(trade_data), called between two ledger operations
TrackerSaveTrade(p, trade_data) ==
    /\ pc[p] = "idle"
    /\ TradeIdTaken(trades, trade_data.trade_id) \/ RoomForRow
    /\ trades' = InsertOrReplaceTrade(trades, trade_data)
    /\ UNCHANGED <<holdings, nextHoldingId, flows, pc, call>>
    /\ UNCHANGED <<bot, portfolio, now>>

-----------------------------------------------------------------------------
(* PortfolioRepository.get_trade_history: one SELECT *)

\* the rows the WHERE clause keeps, by their position in the table
HistoryRows(rows, days, symbol) ==
    {i \in 1..Len(rows) :
        /\ symbol # "" => rows[i].symbol = symbol
        /\ TextLeq(SqlDatetime(now, days), rows[i].timestamp)}

\* ORDER BY timestamp DESC: every order of the kept rows that the clause allows
TradeHistories(rows, days, symbol) ==
    LET kept == HistoryRows(rows, days, symbol)
        n == Cardinality(kept)
        orders == {o \in [1..n -> kept] :
                      /\ \A i, j \in 1..n : o[i] = o[j] => i = j
                      /\ \A i, j \in 1..n :
                            i < j => TextLeq(rows[o[j]].timestamp, rows[o[i]].timestamp)}
    IN  {[k \in 1..n |-> rows[o[k]]] : o \in orders}

HistoryFrame(days, symbol, result) ==
    [op |-> "HISTORY", symbol |-> symbol, quantity |-> 0, price |-> 0, fees |-> 0,
     trade_id |-> 0, holding |-> NoHolding, status |-> "ok",
     args |-> [days |-> days, symbol |-> symbol, at |-> now], result |-> result]

GetTradeHistory(p, days, symbol) ==
    /\ pc[p] = "idle"
    /\ \E result \in TradeHistories(trades, days, symbol) :
          call' = [call EXCEPT ![p] = HistoryFrame(days, symbol, result)]
    /\ pc' = [pc EXCEPT ![p] = "done"]
    /\ UNCHANGED <<holdings, nextHoldingId, trades, flows>>
    /\ UNCHANGED <<bot, portfolio, now>>

\* time passes
Tick ==
    /\ now.date < MaxDate
    /\ now' = Later(now)
    /\ UNCHANGED <<holdings, nextHoldingId, trades, flows, pc, call, bot, portfolio>>

-----------------------------------------------------------------------------
(* get_portfolio_value: four reads, each on a connection of its own *)

\* get_capital_flow_summary, first SELECT
ValueGetDeposits(p) ==
    /\ pc[p] = "idle"
    /\ pc' = [pc EXCEPT ![p] = "value_withdrawals"]
    /\ call' = [call EXCEPT ![p] =
                   ValueFrame(CapitalFlowTotal(flows, "DEPOSIT"), 0, {}, NoValue, "none")]
    /\ UNCHANGED <<holdings, nextHoldingId, trades, flows>>
    /\ UNCHANGED <<bot, portfolio, now>>

\* get_capital_flow_summary, second SELECT
ValueGetWithdrawals(p) ==
    /\ pc[p] = "value_withdrawals"
    /\ pc' = [pc EXCEPT ![p] = "value_holdings"]
    /\ call' = [call EXCEPT ![p].withdrawals = CapitalFlowTotal(flows, "WITHDRAWAL")]
    /\ UNCHANGED <<holdings, nextHoldingId, trades, flows>>
    /\ UNCHANGED <<bot, portfolio, now>>

\* positions = self.portfolio_repo.get_holdings()
ValueGetHoldings(p) ==
    /\ pc[p] = "value_holdings"
    /\ pc' = [pc EXCEPT ![p] = "value_prices"]
    /\ call' = [call EXCEPT ![p].positions = holdings]
    /\ UNCHANGED <<holdings, nextHoldingId, trades, flows>>
    /\ UNCHANGED <<bot, portfolio, now>>

\* the loop over positions with its price lookups, and the return
ValuePrices(p) ==
    /\ pc[p] = "value_prices"
    /\ \E quotes \in [{pos.symbol : pos \in call[p].positions} -> PriceQuotes] :
          call' = [call EXCEPT ![p].value = PortfolioValue(call[p].deposits,
                                                           call[p].withdrawals,
                                                           call[p].positions, quotes),
                               ![p].status = "ok"]
    /\ pc' = [pc EXCEPT ![p] = "done"]
    /\ UNCHANGED <<holdings, nextHoldingId, trades, flows>>
    /\ UNCHANGED <<bot, portfolio, now>>

-----------------------------------------------------------------------------
(* TradingBot.run: one iteration of the loop, in the order of the code.     *)
(* The locals of an iteration are never read before they are assigned in    *)
(* it, so each iteration starts from a fresh frame; bot.log is the line the *)
(* iteration has logged.                                                    *)

\* settings.yaml: risk.max_drawdown, stop_loss, take_profit; trading.risk_per_trade,
\* max_position_size, initial_capital.  RiskManager, CapitalAllocator and
\* MockTrader each load them in __init__ and never assign them again.
Configs ==
    [max_drawdown : {Rat(1, 2)}, risk_per_trade : {Rat(1, 2)},
     max_position_size : {RatInt(1)}, initial_capital : {RatInt(4)},
     stop_loss : {Rat(1, 2)}, take_profit : {Rat(1, 4)}]

\* market_bias = bull_conviction - bear_conviction, in tenths
Biases == -10..10

HistoricalData == {<<>>, <<[close |-> 2]>>}

\* drawdowns 0, 1/3, 1/2 and 2/3
Accounts ==
    {[cash |-> 0, equity |-> 1], [cash |-> 1, equity |-> 2],
     [cash |-> 1, equity |-> 1], [cash |-> 2, equity |-> 1]}

BotQuotes == {Unavailable, Quote(2)}

AlpacaPosition(symbol, qty) ==
    [symbol |-> symbol, qty |-> qty, avg_entry_price |-> 2, market_value |-> 2 * qty]

PositionLists ==
    {<<>>, <<AlpacaPosition("AAPL", 1)>>, <<AlpacaPosition("AAPL", -1)>>,
     <<AlpacaPosition("MSFT", 1)>>}

Logged(level, message, detail) == [level |-> level, message |-> message, detail |-> detail]

\* steps 1 to 5: market data, account and positions, portfolio_status
BotPoll ==
    /\ bot.pc = "poll"
    /\ \E current_price \in BotQuotes, historical_data \in HistoricalData,
          account_data \in Accounts, positions_data \in PositionLists :
          IF OrZero(current_price) = 0
          THEN bot' = LoopFrame("poll", bot.config,
                                Logged("error", "Could not get price", None))
          ELSE IF historical_data = <<>>
          THEN bot' = LoopFrame("poll", bot.config,
                                Logged("error", "Could not get historical data", None))
          ELSE bot' = [LoopFrame("decide", bot.config, NoLog) EXCEPT
                          !.current_price = current_price,
                          !.current_position = CurrentPosition(positions_data, bot.symbol),
                          !.portfolio_status = PortfolioStatus(account_data, positions_data)]
    /\ UNCHANGED <<holdings, nextHoldingId, trades, flows, pc, call, portfolio, now>>

\* step 6: make_decision, whose debate yields the market_bias
BotDecide ==
    /\ bot.pc = "decide"
    /\ \E market_bias \in Biases :
          LET decision == MakeDecision(market_bias, bot.current_position)
          IN  bot' = [bot EXCEPT !.decision = decision,
                                 !.pc = IF NeedsValidation(decision) THEN "validate"
                                        ELSE "execute"]
    /\ UNCHANGED <<holdings, nextHoldingId, trades, flows, pc, call, portfolio, now>>

\* step 7: validate_trade; a rejection is logged and the iteration ends
BotValidate ==
    /\ bot.pc = "validate"
    /\ LET risk_validation == ValidateTrade(bot.decision, bot.portfolio_status,
                                            bot.config.max_drawdown)
       IN  IF ~Approved(risk_validation)
           THEN bot' = [bot EXCEPT !.risk_validation = risk_validation,
                                   !.log = Logged("warning", "Trade rejected",
                                                  risk_validation.reason),
                                   !.pc = "poll"]
           ELSE bot' = [bot EXCEPT !.risk_validation = risk_validation, !.pc = "size"]
    /\ UNCHANGED <<holdings, nextHoldingId, trades, flows, pc, call, portfolio, now>>

\* step 8: calculate_trade_size; what it raises is caught by the loop and logged
BotSize ==
    /\ bot.pc = "size"
    /\ LET trade_size == CalculateTradeSize(bot.portfolio_status.cash,
                                            bot.portfolio_status.positions, bot.config)
       IN  IF trade_size.raised # "none"
           THEN bot' = [bot EXCEPT !.log = Logged("error", "Error in main loop",
                                                  [raised |-> trade_size.raised]),
                                   !.pc = "poll"]
           ELSE bot' = [bot EXCEPT !.decision.size = trade_size.size, !.pc = "execute"]
    /\ UNCHANGED <<holdings, nextHoldingId, trades, flows, pc, call, portfolio, now>>

\* steps 9 to 11: execute_trade, log, sleep
BotExecute ==
    /\ bot.pc = "execute"
    /\ bot.decision.action = "HOLD" \/ Len(portfolio.trades) < MaxExecuted
    /\ portfolio' = ExecuteTrade(portfolio, bot.decision, bot.symbol,
                                 bot.current_price.price)
    /\ bot' = [bot EXCEPT
                  !.log = Logged("info", "Trade executed",
                                 IF bot.decision.action = "HOLD" THEN NoAction
                                 ELSE TradeResult(portfolio, bot.decision, bot.symbol,
                                                  bot.current_price.price)),
                  !.pc = "poll"]
    /\ UNCHANGED <<holdings, nextHoldingId, trades, flows, pc, call, now>>

-----------------------------------------------------------------------------
(* RiskManager and CapitalAllocator called directly, by callers that share  *)
(* the two objects.  A call binds its arguments, then runs its body and     *)
(* returns; the bodies of two callers may interleave.                       *)

RiskFrame(op, args, result, status) ==
    [op |-> op, symbol |-> "", quantity |-> 0, price |-> 0, fees |-> 0,
     trade_id |-> 0, holding |-> NoHolding, status |-> status,
     args |-> args, result |-> result]

\* what the method of that name returns on these arguments
RiskResult(op, args, config) ==
    CASE op = "validate_trade" ->
             ValidateTrade(args.trade, args.portfolio, config.max_drawdown)
      [] op = "check_stop_loss" ->
             CheckStopLoss(args.position, args.current_price, config.stop_loss)
      [] op = "check_take_profit" ->
             CheckTakeProfit(args.position, args.current_price, config.take_profit)
      [] op = "calculate_position_size" ->
             CalculatePositionSize(args.capital, args.entry_price, args.stop_loss_price,
                                   config.stop_loss)
      [] op = "calculate_trade_size" ->
             CalculateTradeSize(args.available_capital, args.current_positions, config)
      [] op = "adjust_position_sizes" ->
             AdjustPositionSizes(args.positions, args.market_conditions)

\* the call is made: the arguments are bound
RiskCall(p, op, args) ==
    /\ pc[p] = "idle"
    /\ pc' = [pc EXCEPT ![p] = "risk_body"]
    /\ call' = [call EXCEPT ![p] = RiskFrame(op, args, None, "none")]
    /\ UNCHANGED <<holdings, nextHoldingId, trades, flows>>
    /\ UNCHANGED <<bot, portfolio, now>>

\* the body runs and returns
RiskReturnTightening(p) ==
    /\ pc[p] = "risk_body"
    /\ pc' = [pc EXCEPT ![p] = "done"]
    /\ call' = [call EXCEPT ![p].result = RiskResult(call[p].op, call[p].args, bot.config),
                            ![p].status = "ok"]
    /\ bot' = [bot EXCEPT !.config.stop_loss = RatInt(0), !.config.take_profit = RatInt(0),
                          !.config.max_drawdown = RatInt(0),
                          !.config.risk_per_trade = RatInt(0)]
    /\ UNCHANGED <<holdings, nextHoldingId, trades, flows>>
    /\ UNCHANGED <<portfolio, now>>

\* the body runs and returns: no method assigns an attribute of self or a key of
\* an argument, or calls the ledger
RiskReturn(p) ==
    /\ pc[p] = "risk_body"
    /\ pc' = [pc EXCEPT ![p] = "done"]
    /\ call' = [call EXCEPT ![p].result = RiskResult(call[p].op, call[p].args, bot.config),
                            ![p].status = "ok"]
    /\ UNCHANGED <<holdings, nextHoldingId, trades, flows>>
    /\ UNCHANGED <<bot, portfolio, now>>

\* positions as check_stop_loss and check_take_profit read them, and None
RiskPositions ==
    {None} \cup [side : {"LONG", "SHORT"}, entry_price : {2, 4}]

RiskPrices == 1..6

\* position maps as calculate_trade_size reads them, by their values
SizedPosition(symbol, size, entry_price) ==
    [symbol |-> symbol, size |-> size, entry_price |-> entry_price]

CurrentPositionMaps ==
    {{}, {SizedPosition("AAPL", RatInt(0), RatInt(0))},
     {SizedPosition("AAPL", RatInt(1), RatInt(2))},
     {SizedPosition("AAPL", RatInt(1), RatInt(2)),
      SizedPosition("MSFT", Rat(1, 2), RatInt(2))}}

AvailableCapital == {0, 1, 4}

\* position maps as adjust_position_sizes reads them
SizeMaps ==
    {<<>>, [symbol \in {"AAPL"} |-> [size |-> RatInt(5)]],
     [symbol \in {"AAPL", "MSFT"} |->
         [size |-> IF symbol = "AAPL" THEN RatInt(5) ELSE Rat(1, 2)]]}

MarketConditions == {"highly_volatile", "normal", "trending", "sideways"}

RiskTrades == {MakeDecision(10, None), MakeDecision(-3, [side |-> "LONG"])}

RiskPortfolios == {PortfolioStatus(account_data, <<>>) : account_data \in Accounts}

-----------------------------------------------------------------------------
(* Specifications *)

\* One caller, each operation run to its end before the next starts (the CLI).
SeqNext ==
    \/ \E a \in Amounts : RecordDeposit("c1", a)
    \/ \E a \in Amounts : RecordWithdrawal("c1", a)
    \/ \E s \in Symbols, q \in Quantities, pr \in Prices, f \in Fees, t \in TradeIdChoices :
          RecordBuy("c1", s, q, pr, f, t)
    \/ BuyGetHolding("c1")
    \/ BuyWriteHolding("c1")
    \/ \E s \in Symbols, q \in Quantities, pr \in Prices, f \in Fees :
          RecordSell("c1", s, q, pr, f)
    \/ \E t \in TradeIdChoices : SellSaveTrade("c1", t)
    \/ SellGetHolding("c1")
    \/ SellWriteHolding("c1")
    \/ Return("c1")

SeqSpec == Init /\ [][SeqNext]_vars

\* One caller, and a call may be cut short between two repository calls.
FaultNext ==
    \/ SeqNext
    \/ Fault("c1")

FaultSpec == Init /\ [][FaultNext]_vars

\* The HTTP API: its handlers run on a thread pool and share one DataManager, so
\* the repository calls of two trades interleave freely.  Both callers trade the
\* same symbol with arguments the API's request model lets through.
ConcSymbols == {"AAPL"}

ConcBuyQuantities == {2}

ConcBuyPrices == {1, 3}

ConcSellQuantities == {1, 2}

ConcSellPrices == {3}

Next ==
    \E p \in Callers :
        \/ \E s \in ConcSymbols, q \in ConcBuyQuantities, pr \in ConcBuyPrices, f \in Fees,
                 t \in TradeIdChoices : RecordBuy(p, s, q, pr, f, t)
        \/ BuyGetHolding(p)
        \/ BuyWriteHolding(p)
        \/ \E s \in ConcSymbols, q \in ConcSellQuantities, pr \in ConcSellPrices, f \in Fees :
                 RecordSell(p, s, q, pr, f)
        \/ \E t \in TradeIdChoices : SellSaveTrade(p, t)
        \/ SellGetHolding(p)
        \/ SellWriteHolding(p)
        \/ Return(p)

Spec == Init /\ [][Next]_vars

\* One caller that also asks for the portfolio value between its operations.
ValueNext ==
    \/ SeqNext
    \/ ValueGetDeposits("c1")
    \/ ValueGetWithdrawals("c1")
    \/ ValueGetHoldings("c1")
    \/ ValuePrices("c1")

ValueSpec == Init /\ [][ValueNext]_vars

\* trade records a caller of PortfolioTracker.save_trade may pass
TradeData ==
    {[trade_id |-> t, timestamp |-> IsoFormat(now), symbol |-> sy, action |-> a,
      quantity |-> q, price |-> pr,
      total_value |-> q * pr, net_amount |-> q * pr] :
        t \in TradeIdChoices, sy \in ConcSymbols, a \in {"BUY", "SELL"},
        q \in ConcBuyQuantities, pr \in ConcSellPrices}

\* One caller that uses the ledger and also PortfolioTracker on the same database.
LogNext ==
    \/ \E a \in ConcSellQuantities : RecordDeposit("c1", a)
    \/ \E a \in ConcSellQuantities : RecordWithdrawal("c1", a)
    \/ \E s \in ConcSymbols, q \in ConcBuyQuantities, pr \in ConcBuyPrices, f \in Fees,
             t \in TradeIdChoices : RecordBuy("c1", s, q, pr, f, t)
    \/ BuyGetHolding("c1")
    \/ BuyWriteHolding("c1")
    \/ \E s \in ConcSymbols, q \in ConcSellQuantities, pr \in ConcSellPrices, f \in Fees :
             RecordSell("c1", s, q, pr, f)
    \/ \E t \in TradeIdChoices : SellSaveTrade("c1", t)
    \/ SellGetHolding("c1")
    \/ SellWriteHolding("c1")
    \/ Return("c1")
    \/ \E trade_data \in TradeData : TrackerSaveTrade("c1", trade_data)

LogSpec == Init /\ [][LogNext]_vars

\* One caller trades while another asks for the portfolio value.
ReadNext ==
    \/ \E s \in ConcSymbols, q \in ConcBuyQuantities, pr \in ConcBuyPrices, f \in Fees,
             t \in TradeIdChoices : RecordBuy("c1", s, q, pr, f, t)
    \/ BuyGetHolding("c1")
    \/ BuyWriteHolding("c1")
    \/ \E s \in ConcSymbols, q \in ConcSellQuantities, pr \in ConcSellPrices, f \in Fees :
             RecordSell("c1", s, q, pr, f)
    \/ \E t \in TradeIdChoices : SellSaveTrade("c1", t)
    \/ SellGetHolding("c1")
    \/ SellWriteHolding("c1")
    \/ Return("c1")
    \/ ValueGetDeposits("c2")
    \/ ValueGetWithdrawals("c2")
    \/ ValueGetHoldings("c2")
    \/ ValuePrices("c2")
    \/ Return("c2")

ReadSpec == Init /\ [][ReadNext]_vars

\* The trading bot: TradingBot.__init__, then run("AAPL").  It trades through its
\* MockTrader and never calls the ledger.
BotInit ==
    /\ holdings = {}
    /\ nextHoldingId = 1
    /\ trades = <<>>
    /\ flows = <<>>
    /\ pc = [p \in Callers |-> "idle"]
    /\ call = [p \in Callers |-> NoCall]
    /\ \E config \in Configs :
          /\ bot = LoopFrame("poll", config, NoLog)
          /\ portfolio = NewPortfolio(config)
    /\ now = Epoch

BotNext ==
    \/ BotPoll
    \/ BotDecide
    \/ BotValidate
    \/ BotSize
    \/ BotExecute

BotSpec == BotInit /\ [][BotNext]_vars

\* The risk gate and the allocator of one TradingBot, called by two callers.
RiskInit ==
    /\ holdings = {}
    /\ nextHoldingId = 1
    /\ trades = <<>>
    /\ flows = <<>>
    /\ pc = [p \in Callers |-> "idle"]
    /\ call = [p \in Callers |-> NoCall]
    /\ \E config \in Configs : bot = LoopFrame("none", config, NoLog)
    /\ portfolio = NoPortfolio
    /\ now = Epoch

RiskNext ==
    \E p \in Callers :
        \/ \E trade \in RiskTrades, status \in RiskPortfolios :
              RiskCall(p, "validate_trade", [trade |-> trade, portfolio |-> status])
        \/ \E position \in RiskPositions, current_price \in RiskPrices :
              RiskCall(p, "check_stop_loss",
                       [position |-> position, current_price |-> current_price])
        \/ \E position \in RiskPositions, current_price \in RiskPrices :
              RiskCall(p, "check_take_profit",
                       [position |-> position, current_price |-> current_price])
        \/ \E capital \in {0, 2}, entry_price \in {0, 4}, stop_loss_price \in {2, 4} :
              RiskCall(p, "calculate_position_size",
                       [capital |-> capital, entry_price |-> entry_price,
                        stop_loss_price |-> stop_loss_price])
        \/ \E available_capital \in AvailableCapital,
              current_positions \in CurrentPositionMaps :
              RiskCall(p, "calculate_trade_size",
                       [available_capital |-> available_capital,
                        current_positions |-> current_positions])
        \/ \E positions \in SizeMaps, market_conditions \in MarketConditions :
              RiskCall(p, "adjust_position_sizes",
                       [positions |-> positions, market_conditions |-> market_conditions])
        \/ RiskReturn(p)
        \/ Return(p)

RiskSpec == RiskInit /\ [][RiskNext]_vars

\* One caller that trades and reads the trade history while time passes.
HistorySymbols == {"AAPL", "MSFT"}

HistoryDays == {1, 2}

HistoryNext ==
    \/ \E s \in HistorySymbols, q \in ConcBuyQuantities, pr \in ConcSellPrices, f \in Fees,
             t \in TradeIdChoices : RecordBuy("c1", s, q, pr, f, t)
    \/ BuyGetHolding("c1")
    \/ BuyWriteHolding("c1")
    \/ \E s \in HistorySymbols, q \in ConcBuyQuantities, pr \in ConcSellPrices, f \in Fees :
             RecordSell("c1", s, q, pr, f)
    \/ \E t \in TradeIdChoices : SellSaveTrade("c1", t)
    \/ SellGetHolding("c1")
    \/ SellWriteHolding("c1")
    \/ \E days \in HistoryDays, symbol \in HistorySymbols \cup {""} :
             GetTradeHistory("c1", days, symbol)
    \/ Return("c1")
    \/ Tick

HistorySpec == Init /\ [][HistoryNext]_vars

-----------------------------------------------------------------------------
(* Quantities the properties are stated in *)

Tickers == {Upper(s) : s \in Symbols}

RECURSIVE SumQuantity(_, _, _)
SumQuantity(rows, action, ticker) ==
    IF rows = <<>> THEN 0
    ELSE (IF Head(rows).action = action /\ Head(rows).symbol = ticker
          THEN Head(rows).quantity ELSE 0)
         + SumQuantity(Tail(rows), action, ticker)

RECURSIVE SumValue(_, _, _)
SumValue(rows, action, ticker) ==
    IF rows = <<>> THEN 0
    ELSE (IF Head(rows).action = action /\ Head(rows).symbol = ticker
          THEN Head(rows).quantity * Head(rows).price ELSE 0)
         + SumValue(Tail(rows), action, ticker)

RECURSIVE SumHeld(_)
SumHeld(rows) ==
    IF rows = {} THEN 0
    ELSE LET r == CHOOSE x \in rows : TRUE
         IN  r.quantity + SumHeld(rows \ {r})

Bought(ticker) == SumQuantity(trades, "BUY", ticker)

Sold(ticker) == SumQuantity(trades, "SELL", ticker)

Held(ticker) == SumHeld({r \in holdings : Upper(r.symbol) = ticker})

RowsOf(rows, symbol) == {r \in rows : r.symbol = symbol}

\* no call is between its first and its last repository call
Quiescent == \A p \in Callers : pc[p] \in {"idle", "done"}

-----------------------------------------------------------------------------
(* C1: record_buy and record_sell are atomic with respect to crashes and    *)
(* storage faults: whenever no call is in flight, also after a call was cut *)
(* short, every persisted Trade has had its effect on the Holding and every *)
(* Holding mutation has its Trade, so for each ticker the quantity held is  *)
(* the quantity bought minus the quantity sold.                             *)
C1_TradeIffHoldingApplied ==
    Quiescent => \A t \in Tickers : Held(t) = Bought(t) - Sold(t)

(* C2: under every interleaving of concurrent record_sell calls, the total  *)
(* quantity of recorded SELL trades of a symbol never exceeds the total     *)
(* quantity bought.                                                         *)
C2_SoldNeverExceedsBought ==
    \A t \in Tickers : Sold(t) <= Bought(t)

(* C3: per-symbol Holding mutations are serialized: no call fails after its *)
(* Trade has been written, and once the calls have completed the Holding    *)
(* is what the recorded trades give in a serial order, no update lost.      *)
C3_SerializedHoldingMutations ==
    /\ \A p \in Callers : call[p].status \notin {"HoldingIntegrityError", "TypeError"}
    /\ (\A p \in Callers : pc[p] \in {"idle", "done"})
           => \A t \in Tickers : Bought(t) - Sold(t) = Held(t)

(* C4: a record_sell with valid arguments on a symbol with no Holding fails *)
(* with NoSuchHolding, one whose quantity exceeds the held quantity fails   *)
(* with InsufficientQuantity, in both cases leaving trades, holdings and    *)
(* capital flows as they were; any other record_sell goes on to its Trade.  *)
C4_SellStarts(p) ==
    LET c == call'[p]
        held == RowsOf(holdings, c.symbol)
    IN  /\ held = {} =>
              /\ pc'[p] = "done" /\ c.status = "NoSuchHolding"
              /\ UNCHANGED db
        /\ (held # {} /\ \E r \in held : r.quantity < c.quantity) =>
              /\ pc'[p] = "done" /\ c.status = "InsufficientQuantity"
              /\ UNCHANGED db
        /\ (held # {} /\ \A r \in held : r.quantity >= c.quantity) =>
              pc'[p] = "sell_save"

C4_SellStateErrors ==
    [][\A p \in Callers :
          (pc[p] = "idle" /\ pc'[p] # "idle" /\ call'[p].op = "SELL"
             /\ call'[p].quantity > 0 /\ call'[p].price > 0) => C4_SellStarts(p)]_vars

C4_Witness ==
    /\ pc["c1"] = "done"
    /\ call["c1"].status = "InsufficientQuantity"
    /\ \E r \in holdings : r.symbol = call["c1"].symbol /\ r.quantity = 1
    /\ Len(trades) = 1

(* C5: record_buy on a symbol with no Holding creates one with the bought   *)
(* quantity at the bought price; on a symbol with a Holding it adds the     *)
(* quantity and sets avg_entry_price to (old_qty*old_avg + q*p)/(old_qty+q).*)
(* Hence while a symbol has only been bought, its avg_entry_price is the    *)
(* quantity-weighted average of all its buy prices.                         *)
C5_BuyWrites(p) ==
    LET c == call[p]
        old == RowsOf(holdings, c.symbol)
        new == RowsOf(holdings', c.symbol)
    IN  /\ Cardinality(new) = 1
        /\ \A n \in new :
              IF old = {}
              THEN n.quantity = c.quantity /\ n.avg_entry_price = [n |-> c.price, d |-> 1]
              ELSE \A o \in old :
                      /\ n.quantity = o.quantity + c.quantity
                      /\ n.avg_entry_price.d > 0
                      /\ n.avg_entry_price.n * o.avg_entry_price.d * (o.quantity + c.quantity)
                           = n.avg_entry_price.d
                               * (o.quantity * o.avg_entry_price.n
                                    + c.quantity * c.price * o.avg_entry_price.d)

C5_OnlyBought(s) ==
    /\ Quiescent
    /\ Sold(Upper(s)) = 0
    /\ RowsOf(holdings, s) # {}
    /\ \A r \in holdings : Upper(r.symbol) = Upper(s) => r.symbol = s

C5_WeightedAverage ==
    \A s \in Symbols :
        C5_OnlyBought(s) =>
            \A r \in RowsOf(holdings, s) :
                /\ r.quantity = Bought(Upper(s))
                /\ r.avg_entry_price.n * Bought(Upper(s))
                     = r.avg_entry_price.d * SumValue(trades, "BUY", Upper(s))

C5_BuyAveragesCost ==
    /\ [][\A p \in Callers :
             (pc[p] = "buy_write" /\ pc'[p] = "done" /\ call'[p].status = "ok")
                 => C5_BuyWrites(p)]_vars
    /\ []C5_WeightedAverage

C5_Witness ==
    /\ pc["c1"] = "done" /\ call["c1"].op = "BUY" /\ call["c1"].status = "ok"
    /\ C5_OnlyBought(call["c1"].symbol)
    /\ \E r \in holdings :
          r.symbol = call["c1"].symbol /\ r.quantity = 3
             /\ r.avg_entry_price = [n |-> 7, d |-> 3]

(* C6: a successful record_sell of q against a Holding of quantity h        *)
(* deletes the Holding when q = h; when 0 < q < h it leaves the Holding     *)
(* with quantity exactly h - q and its avg_entry_price unchanged.           *)
C6_SellWrites(p) ==
    LET c == call[p]
        old == RowsOf(holdings, c.symbol)
        new == RowsOf(holdings', c.symbol)
    IN  /\ Cardinality(old) = 1
        /\ \A o \in old :
              /\ c.quantity = o.quantity => new = {}
              /\ c.quantity < o.quantity =>
                    new = {[o EXCEPT !.quantity = o.quantity - c.quantity]}
        /\ \A r \in holdings : r.symbol # c.symbol => r \in holdings'

C6_SellReducesOrDeletes ==
    [][\A p \in Callers :
          (pc[p] = "sell_write" /\ pc'[p] = "done" /\ call'[p].status = "ok")
              => C6_SellWrites(p)]_vars

C6_Witness ==
    /\ pc["c1"] = "done" /\ call["c1"].op = "SELL" /\ call["c1"].status = "ok"
    /\ call["c1"].quantity = 1
    /\ \E r \in holdings :
          r.symbol = call["c1"].symbol /\ r.quantity = 1
             /\ r.avg_entry_price = [n |-> 2, d |-> 1]

(* C7: the Trade of a successful record_sell carries realized_pnl =         *)
(* quantity*price - quantity*avg_entry_price - fees, with the Holding's     *)
(* average at the moment of the sell; a BUY trade carries no realized_pnl;  *)
(* no later operation changes the realized_pnl of a recorded trade.         *)
C7_NewTrade(t) ==
    IF t.action = "SELL"
    THEN \E p \in Callers :
            /\ pc[p] = "sell_save" /\ pc'[p] = "sell_read"
            /\ t.quantity = call[p].quantity /\ t.price = call[p].price
            /\ t.fees = call[p].fees
            /\ RowsOf(holdings, call[p].symbol) # {}
            /\ \A o \in RowsOf(holdings, call[p].symbol) :
                  /\ t.realized_pnl.d > 0
                  /\ t.realized_pnl.n * o.avg_entry_price.d
                       = t.realized_pnl.d
                           * ((t.quantity * t.price - t.fees) * o.avg_entry_price.d
                                - t.quantity * o.avg_entry_price.n)
    ELSE t.realized_pnl = [n |-> 0, d |-> 0]

C7_RealizedPnlAtSale ==
    [][/\ Len(trades') >= Len(trades)
       /\ \A i \in 1..Len(trades) : trades'[i].realized_pnl = trades[i].realized_pnl
       /\ \A i \in (Len(trades) + 1)..Len(trades') : C7_NewTrade(trades'[i])]_vars

C7_Witness ==
    /\ Len(trades) = 3
    /\ trades[1].action = "BUY" /\ trades[2].action = "BUY"
    /\ trades[3].action = "SELL" /\ trades[3].realized_pnl = [n |-> -7, d |-> 3]

(* C8: a record_buy/record_sell that arrives at save_trade with a trade_id  *)
(* already in the trade log ends there with an error and applies nothing:   *)
(* the trade log and the holdings are as after the first application.       *)
C8_Replays(p) ==
    /\ pc[p] \in {"idle", "sell_save"}
    /\ pc'[p] # pc[p]
    /\ call'[p].trade_id \in UsedTradeIds

C8_ReplayAppliesNothing ==
    [][\A p \in Callers :
          C8_Replays(p) =>
              /\ pc'[p] = "done" /\ call'[p].status = "IntegrityError"
              /\ UNCHANGED db]_vars

C8_Witness ==
    /\ pc["c1"] = "done" /\ call["c1"].status = "IntegrityError"
    /\ call["c1"].op = "BUY" /\ call["c1"].trade_id \in UsedTradeIds
    /\ RowsOf(holdings, call["c1"].symbol) # {}

(* C9: in every reachable state every stored Holding has quantity > 0: a    *)
(* sell that brings the quantity to 0 or below deletes the row, and no buy  *)
(* or partial sell stores a non-positive quantity.                          *)
C9_HeldQuantityPositive ==
    \A r \in holdings : r.quantity > 0

C9_Witness ==
    /\ \E p \in Callers : pc[p] = "done" /\ call[p].op = "SELL" /\ call[p].status = "ok"
    /\ holdings = {}
    /\ Sold("AAPL") > Bought("AAPL")

(* C10: record_deposit/record_withdrawal with amount <= 0 and record_buy/   *)
(* record_sell with quantity <= 0 or price <= 0 fail at once, and capital   *)
(* flows, trades and holdings are exactly as before the call.               *)
C10_Invalid(c) ==
    \/ c.op \in {"DEPOSIT", "WITHDRAWAL"} /\ c.quantity <= 0
    \/ c.op \in {"BUY", "SELL"} /\ (c.quantity <= 0 \/ c.price <= 0)

C10_ValidationRejectsFirst ==
    [][\A p \in Callers :
          (pc[p] = "idle" /\ pc'[p] # "idle" /\ C10_Invalid(call'[p])) =>
              /\ pc'[p] = "done" /\ call'[p].status = "AssertionError"
              /\ UNCHANGED db]_vars

C10_Witness ==
    /\ pc["c1"] = "done" /\ call["c1"].status = "AssertionError"
    /\ call["c1"].op = "SELL" /\ call["c1"].quantity = 1 /\ call["c1"].price = 0
    /\ \E r \in holdings : r.symbol = call["c1"].symbol /\ r.quantity >= 1
    /\ Len(flows) = 1

(* C11: a get_portfolio_value that runs while a record_buy/record_sell is   *)
(* in flight reports whole Holdings only: each write of a trade puts a row  *)
(* from its (quantity, avg_entry_price) before the trade to the pair after  *)
(* it in one step, the reader takes its rows from one committed state of    *)
(* the table, and it reports the pairs it read.                             *)
C11_RowAfter(w, r) ==
    LET c == call[w]
        h == c.holding
    IN  IF c.op = "BUY"
        THEN IF h = NoHolding
             THEN /\ r.symbol = c.symbol /\ r.quantity = c.quantity
                  /\ r.avg_entry_price = [n |-> c.price, d |-> 1]
             ELSE /\ r.id = h.id /\ r.symbol = h.symbol
                  /\ r.quantity = h.quantity + c.quantity
                  /\ r.avg_entry_price.d > 0
                  /\ r.avg_entry_price.n * h.avg_entry_price.d * (h.quantity + c.quantity)
                       = r.avg_entry_price.d
                           * (h.quantity * h.avg_entry_price.n
                                + c.quantity * c.price * h.avg_entry_price.d)
        ELSE /\ r.id = h.id /\ r.symbol = h.symbol
             /\ r.quantity = h.quantity - c.quantity
             /\ r.avg_entry_price = h.avg_entry_price

C11_Reported(d, pos) ==
    /\ d.symbol = pos.symbol /\ d.quantity = pos.quantity
    /\ d.avg_entry_price = pos.avg_entry_price

C11_NoHalfAppliedHolding ==
    [][/\ \A r \in holdings' :
             \/ r \in holdings
             \/ \E w \in Callers :
                   /\ pc[w] \in {"buy_write", "sell_write"} /\ pc'[w] = "done"
                   /\ C11_RowAfter(w, r)
       /\ \A p \in Callers :
             /\ (pc[p] = "value_holdings" /\ pc'[p] = "value_prices")
                   => call'[p].positions = holdings
             /\ (pc[p] = "value_prices" /\ pc'[p] = "done")
                   => /\ \A d \in call'[p].value.positions :
                            \E pos \in call[p].positions : C11_Reported(d, pos)
                      /\ \A pos \in call[p].positions :
                            \E d \in call'[p].value.positions : C11_Reported(d, pos)]_vars

C11_Witness ==
    /\ pc["c2"] = "done" /\ call["c2"].op = "VALUE"
    /\ pc["c1"] = "buy_write" /\ call["c1"].holding # NoHolding
    /\ \E d \in call["c2"].value.positions :
          /\ d.symbol = call["c1"].symbol
          /\ d.quantity = call["c1"].holding.quantity
          /\ d.avg_entry_price = call["c1"].holding.avg_entry_price
    /\ Len(trades) = 2

(* C20: get_portfolio_value returns, with no failure, total_equity =        *)
(* positions_value = the sum over the Holdings of quantity * current price, *)
(* an unavailable price counting as 0; net_contributed = deposits minus     *)
(* withdrawals; total_pnl = total_equity - net_contributed; num_positions = *)
(* the number of Holdings.                                                  *)
C20_PriceOf(value, symbol) ==
    LET d == CHOOSE x \in value.positions : x.symbol = symbol
    IN  IF d.current_price \in {[some |-> TRUE, price |-> x] : x \in QuotedPrices}
        THEN d.current_price.price ELSE 0

RECURSIVE C20_Equity(_, _)
C20_Equity(rows, value) ==
    IF rows = {} THEN 0
    ELSE LET r == CHOOSE x \in rows : TRUE
         IN  r.quantity * C20_PriceOf(value, r.symbol) + C20_Equity(rows \ {r}, value)

RECURSIVE C20_Flows(_, _)
C20_Flows(n, type) ==
    IF n = 0 THEN 0
    ELSE C20_Flows(n - 1, type) + (IF flows[n].type = type THEN flows[n].amount ELSE 0)

C20_ValueIsDerived ==
    \A p \in Callers :
        (pc[p] = "done" /\ call[p].op = "VALUE") =>
            LET v == call[p].value
            IN  /\ call[p].status = "ok"
                /\ \A r \in holdings : \E d \in v.positions : d.symbol = r.symbol
                /\ v.total_equity = C20_Equity(holdings, v)
                /\ v.positions_value = v.total_equity
                /\ v.net_contributed
                     = C20_Flows(Len(flows), "DEPOSIT") - C20_Flows(Len(flows), "WITHDRAWAL")
                /\ v.total_pnl = v.total_equity - v.net_contributed
                /\ v.num_positions = Cardinality(holdings)

C20_Witness ==
    /\ pc["c1"] = "done" /\ call["c1"].op = "VALUE"
    /\ Cardinality(holdings) = 2
    /\ \E d \in call["c1"].value.positions : ~d.current_price.some
    /\ \E d \in call["c1"].value.positions : d.current_price.some
    /\ call["c1"].value.total_equity = 10
    /\ call["c1"].value.net_contributed = -2
    /\ call["c1"].value.total_pnl = 12

-----------------------------------------------------------------------------
(* The trading loop *)

\* make_decision has returned in this iteration
Decided == bot.decision.action # "none"

\* validate_trade has returned in this iteration
Validated == bot.risk_validation.reason.text # ""

(* C12: with a current position present make_decision never returns an      *)
(* opening action, BUY or SELL, whatever the market_bias: only the close    *)
(* action or HOLD.                                                          *)
C12_NoOpeningWhilePositioned ==
    (Decided /\ bot.current_position # None) =>
        bot.decision.action \notin {"BUY", "SELL"}

(* C13: with a LONG position and market_bias < -0.2 the decision is the     *)
(* close of the long with confidence |market_bias|; with a SHORT position   *)
(* and market_bias > 0.2 it is the close of the short with confidence       *)
(* market_bias.  (The code names both actions CLOSE.)                       *)
C13_CloseCarriesConviction ==
    (Decided /\ bot.current_position # None) =>
        LET d == bot.decision
            side == bot.current_position.side
        IN  /\ (side = "LONG" /\ d.market_bias < -2) =>
                  d.action = "CLOSE" /\ d.confidence = -d.market_bias
            /\ (side = "SHORT" /\ d.market_bias > 2) =>
                  d.action = "CLOSE" /\ d.confidence = d.market_bias

(* C14: with no current position make_decision returns HOLD with           *)
(* confidence 0 when |market_bias| <= 0.3, BUY with confidence              *)
(* |market_bias| when market_bias > 0.3, SELL with confidence |market_bias| *)
(* when market_bias < -0.3; a bias of exactly 0.3 or -0.3 gives HOLD.       *)
C14_EntryRule ==
    (Decided /\ bot.current_position = None) =>
        LET d == bot.decision
            b == d.market_bias
        IN  /\ (-3 <= b /\ b <= 3) => d.action = "HOLD" /\ d.confidence = 0
            /\ b > 3 => d.action = "BUY" /\ d.confidence = b
            /\ b < -3 => d.action = "SELL" /\ d.confidence = -b

C14_Witness ==
    /\ bot.pc = "execute" /\ bot.current_position = None
    /\ bot.decision.market_bias = -3 /\ bot.decision.action = "HOLD"

C16_SizingAfterApproval ==
    /\ (bot.pc = "size" \/ bot.decision.size # [n |-> 0, d |-> 0]) =>
           /\ bot.decision.action # "HOLD"
           /\ Validated /\ bot.risk_validation.valid
    /\ (Decided /\ (bot.decision.action = "HOLD"
                      \/ (Validated /\ ~bot.risk_validation.valid))) =>
           bot.pc # "size" /\ bot.decision.size = [n |-> 0, d |-> 0]

C16_Witness ==
    /\ bot.pc = "execute" /\ bot.decision.action = "SELL"
    /\ bot.decision.size = [n |-> 1, d |-> 2]
    /\ bot.risk_validation.valid

(* C17: whenever the portfolio drawdown is at or above max_drawdown,        *)
(* validate_trade rejects, with a reason that names the max-drawdown        *)
(* threshold, for every proposed action and whatever the other portfolio    *)
(* fields are; a drawdown equal to max_drawdown is rejected.                *)
C17_DrawdownCircuitBreaker ==
    Validated =>
        LET drawdown == bot.portfolio_status.drawdown
            max_drawdown == bot.config.max_drawdown
        IN  drawdown.n * max_drawdown.d >= max_drawdown.n * drawdown.d =>
               /\ ~bot.risk_validation.valid
               /\ bot.risk_validation.reason.text = "Maximum drawdown of % exceeded"
               /\ bot.risk_validation.reason.percent.d > 0
               /\ bot.risk_validation.reason.percent.n * max_drawdown.d
                    = 100 * max_drawdown.n * bot.risk_validation.reason.percent.d

C17_Witness ==
    /\ Validated /\ ~bot.risk_validation.valid
    /\ bot.portfolio_status.drawdown = bot.config.max_drawdown
    /\ bot.decision.action = "CLOSE" /\ bot.decision.market_bias = -10
    /\ bot.risk_validation.reason.percent = [n |-> 50, d |-> 1]

(* C18: when the decision is HOLD or validate_trade rejected it, the loop   *)
(* iteration records nothing: no trade is appended, and the positions, the  *)
(* cash and the ledger's holdings, trades and capital flows are unchanged.  *)
C18_NothingRecordedOnHoldOrReject ==
    [][(bot.decision.action = "HOLD" \/ bot.pc # "execute"
           \/ (Validated /\ ~bot.risk_validation.valid)) =>
          (UNCHANGED portfolio /\ UNCHANGED db)]_vars

C18_Witness ==
    /\ bot.pc = "poll" /\ bot.decision.action = "HOLD"
    /\ bot.log.detail = [status |-> "no_action", message |-> "Holding position"]
    /\ Len(portfolio.trades) = 1

(* C19: the trade log is append-only and immutable: no operation, a buy, a  *)
(* sell, a deposit, a withdrawal or the saving of another trade, deletes a  *)
(* recorded Trade or changes one of its fields, and the recorded trades     *)
(* have pairwise distinct trade_ids.                                        *)
C19_TradeLogAppendOnly ==
    /\ [][/\ Len(trades') >= Len(trades)
          /\ \A i \in 1..Len(trades) : trades'[i] = trades[i]]_vars
    /\ [](\A i, j \in 1..Len(trades) : trades[i].trade_id = trades[j].trade_id => i = j)

(* C21: record_withdrawal with an amount > 0 succeeds whatever the net      *)
(* contributed capital is: it appends its capital flow and is never         *)
(* rejected for exceeding the deposits, so net_contributed may go negative. *)
C21_NetContributed == CapitalFlowTotal(flows, "DEPOSIT") - CapitalFlowTotal(flows, "WITHDRAWAL")

C21_WithdrawalNeverRejected ==
    [][\A p \in Callers :
          (pc[p] = "idle" /\ pc'[p] # "idle" /\ call'[p].op = "WITHDRAWAL"
             /\ call'[p].quantity > 0) =>
              /\ pc'[p] = "done" /\ call'[p].status = "ok"
              /\ flows' = Append(flows, [type |-> "WITHDRAWAL",
                                         amount |-> call'[p].quantity])
              /\ UNCHANGED <<holdings, nextHoldingId, trades>>]_vars

C21_Witness ==
    /\ pc["c1"] = "done" /\ call["c1"].op = "WITHDRAWAL" /\ call["c1"].status = "ok"
    /\ Len(flows) = 2 /\ flows[1].type = "DEPOSIT"
    /\ call["c1"].quantity > CapitalFlowTotal(flows, "DEPOSIT")
    /\ C21_NetContributed < 0

(* C22: for every position map the decision loop passes to it,              *)
(* calculate_trade_size returns min((available_capital - sum over the       *)
(* positions of quantity*entry_price) * risk_per_trade, max_position_size), *)
(* with the configured risk_per_trade and max_position_size.                *)
RECURSIVE C22_Exposure(_)
C22_Exposure(positions) ==
    IF positions = {} THEN 0
    ELSE LET pos == CHOOSE x \in positions : TRUE
         IN  pos.qty * pos.avg_entry_price + C22_Exposure(positions \ {pos})

C22_Size(status, config) ==
    LET remaining == RatInt(status.cash - C22_Exposure(status.positions))
        scaled == RatMul(remaining, config.risk_per_trade)
    IN  IF RatLeq(scaled, config.max_position_size) THEN scaled
        ELSE config.max_position_size

C22_TradeSizeFormula ==
    [][bot.pc = "size" =>
          /\ bot'.pc = "execute"
          /\ bot'.decision.size = C22_Size(bot.portfolio_status, bot.config)]_vars

RiskOps ==
    {"validate_trade", "check_stop_loss", "check_take_profit",
     "calculate_position_size", "calculate_trade_size", "adjust_position_sizes"}

Returned(p, op) == pc[p] = "done" /\ call[p].op = op /\ call[p].status = "ok"

(* C23: check_stop_loss is true for a LONG position iff current_price <=    *)
(* entry_price*(1 - stop_loss) and for a SHORT one iff current_price >=     *)
(* entry_price*(1 + stop_loss); check_take_profit is true for LONG iff      *)
(* current_price >= entry_price*(1 + take_profit) and for SHORT iff         *)
(* current_price <= entry_price*(1 - take_profit); both are false when      *)
(* there is no position.  A fraction f is f.n/f.d, so the bounds are        *)
(* compared after multiplying by f.d.                                       *)
C23_AtOrBelow(price, entry, f) == price * f.d <= entry * (f.d - f.n)

C23_AtOrAbove(price, entry, f) == price * f.d >= entry * (f.d + f.n)

C23_TriggersAtBounds ==
    \A p \in Callers :
        LET a == call[p].args
        IN  /\ Returned(p, "check_stop_loss") =>
                  call[p].result =
                      IF a.position = None THEN FALSE
                      ELSE IF a.position.side = "LONG"
                      THEN C23_AtOrBelow(a.current_price, a.position.entry_price,
                                         bot.config.stop_loss)
                      ELSE C23_AtOrAbove(a.current_price, a.position.entry_price,
                                         bot.config.stop_loss)
            /\ Returned(p, "check_take_profit") =>
                  call[p].result =
                      IF a.position = None THEN FALSE
                      ELSE IF a.position.side = "LONG"
                      THEN C23_AtOrAbove(a.current_price, a.position.entry_price,
                                         bot.config.take_profit)
                      ELSE C23_AtOrBelow(a.current_price, a.position.entry_price,
                                         bot.config.take_profit)

C23_Witness ==
    /\ Returned("c1", "check_stop_loss") /\ call["c1"].result = TRUE
    /\ call["c1"].args.position = [side |-> "LONG", entry_price |-> 4]
    /\ call["c1"].args.current_price = 2
    /\ Returned("c2", "check_take_profit") /\ call["c2"].result = TRUE
    /\ call["c2"].args.position = [side |-> "SHORT", entry_price |-> 4]
    /\ call["c2"].args.current_price = 3

(* C25: adjust_position_sizes returns for every symbol in positions         *)
(* adjusted_size = size * factor, the factor being 0.5 for highly_volatile, *)
(* 1.0 for normal, 1.2 for trending and 1.0 for any other regime; the call  *)
(* leaves its positions argument and all persisted state unchanged.         *)
C25_Factor(market_conditions) ==
    CASE market_conditions = "highly_volatile" -> <<1, 2>>
      [] market_conditions = "normal" -> <<1, 1>>
      [] market_conditions = "trending" -> <<12, 10>>
      [] OTHER -> <<1, 1>>

C25_Adjusted(p) ==
    LET a == call[p].args
        f == C25_Factor(a.market_conditions)
    IN  /\ DOMAIN call[p].result = DOMAIN a.positions
        /\ \A symbol \in DOMAIN a.positions :
              LET size == a.positions[symbol].size
                  adjusted == call[p].result[symbol].adjusted_size
              IN  /\ adjusted.d > 0
                  /\ adjusted.n * size.d * f[2] = adjusted.d * size.n * f[1]

C25_AdjustScalesAndIsPure ==
    /\ [](\A p \in Callers : Returned(p, "adjust_position_sizes") => C25_Adjusted(p))
    /\ [][\A p \in Callers :
             (pc[p] = "risk_body" /\ call[p].op = "adjust_position_sizes"
                /\ pc'[p] = "done") =>
                 /\ call'[p].args = call[p].args
                 /\ UNCHANGED <<db, bot, portfolio>>]_vars

C25_Witness ==
    /\ Returned("c1", "adjust_position_sizes")
    /\ call["c1"].args.market_conditions = "trending"
    /\ DOMAIN call["c1"].args.positions = {"AAPL", "MSFT"}
    /\ call["c1"].result["AAPL"].adjusted_size = [n |-> 6, d |-> 1]
    /\ call["c1"].result["MSFT"].adjusted_size = [n |-> 3, d |-> 5]
    /\ Returned("c2", "adjust_position_sizes")
    /\ call["c2"].args.market_conditions = "sideways"

(* C26: RiskGate and CapitalAllocator hold no persistent state: a call of   *)
(* validate_trade, check_stop_loss, check_take_profit,                      *)
(* calculate_position_size or calculate_trade_size changes neither the      *)
(* ledger's holdings, trades and capital flows, nor the configured          *)
(* thresholds, nor its arguments; so under any interleaving of the callers  *)
(* a call returns what the same call returns for any other caller.          *)
C26_Ops == RiskOps \ {"adjust_position_sizes"}

C26_NoPersistentState ==
    /\ [][\A p \in Callers :
             (pc[p] = "risk_body" /\ call[p].op \in C26_Ops /\ pc'[p] = "done") =>
                 /\ call'[p].args = call[p].args
                 /\ bot'.config = bot.config
                 /\ UNCHANGED db]_vars
    /\ [](\A p, q \in Callers :
             (/\ pc[p] = "done" /\ pc[q] = "done"
              /\ call[p].op \in C26_Ops /\ call[q].op = call[p].op
              /\ call[q].args = call[p].args) => call[q].result = call[p].result)

C26_Witness ==
    /\ Returned("c1", "validate_trade") /\ ~call["c1"].result.valid
    /\ Returned("c2", "validate_trade") /\ call["c2"].args = call["c1"].args
    /\ bot.config \in Configs

(* C29: for every available_capital >= 0 and every set of current positions *)
(* with non-negative quantity and entry_price, the size calculate_trade_size*)
(* returns lies within [0, max_position_size].                              *)
C29_SizeWithinLimits ==
    \A p \in Callers :
        (/\ Returned(p, "calculate_trade_size")
         /\ call[p].args.available_capital >= 0
         /\ \A pos \in call[p].args.current_positions :
               pos.size.n >= 0 /\ pos.entry_price.n >= 0) =>
            /\ call[p].result.raised = "none"
            /\ RatLeq(RatInt(0), call[p].result.size)
            /\ RatLeq(call[p].result.size, bot.config.max_position_size)

(* C24: get_trade_history(days, symbol) returns exactly the recorded trades *)
(* whose timestamp lies within the last `days` days and, when a symbol is   *)
(* given, whose symbol equals it, newest first; a trade just recorded for   *)
(* that symbol is always among them.                                        *)
C24_NotBefore(t, u) == t.date > u.date \/ (t.date = u.date /\ t.time >= u.time)

C24_Recent(row, at, days) ==
    C24_NotBefore(row.timestamp, [date |-> at.date - days, time |-> at.time])

C24_Expected(a) ==
    {trades[i] : i \in {k \in 1..Len(trades) :
                           /\ C24_Recent(trades[k], a.at, a.days)
                           /\ a.symbol # "" => trades[k].symbol = a.symbol}}

C24_HistoryIsRecentTrades ==
    \A p \in Callers :
        (pc[p] = "done" /\ call[p].op = "HISTORY") =>
            LET a == call[p].args
                result == call[p].result
            IN  /\ {result[k] : k \in 1..Len(result)} = C24_Expected(a)
                /\ Len(result) = Cardinality(C24_Expected(a))
                /\ \A i, j \in 1..Len(result) :
                      i < j => C24_NotBefore(result[i].timestamp, result[j].timestamp)
                /\ (/\ Len(trades) > 0
                    /\ trades[Len(trades)].timestamp = IsoFormat(a.at)
                    /\ a.symbol \in {"", trades[Len(trades)].symbol}) =>
                       \E k \in 1..Len(result) : result[k] = trades[Len(trades)]

(* C27: after any sequence of sequentially executed successful record_buy / *)
(* record_sell calls, for every symbol of the trade log the Holding's       *)
(* quantity is the sum of the BUY quantities minus the sum of the SELL      *)
(* quantities, its cost basis quantity*avg_entry_price is the sum of the    *)
(* BUY quantity*price minus, over the SELLs, the sold quantity times the    *)
(* average at the time of the sale, and there is no Holding exactly when    *)
(* the quantity difference is 0.                                            *)
RECURSIVE C27_SoldCost(_, _)
C27_SoldCost(rows, ticker) ==
    IF rows = <<>> THEN RatInt(0)
    ELSE LET t == Head(rows)
             rest == C27_SoldCost(Tail(rows), ticker)
         IN  IF t.action = "SELL" /\ t.symbol = ticker
             THEN RatAdd(RatSub(RatInt(t.total_value - t.fees), t.realized_pnl), rest)
             ELSE rest

C27_Consistent(ticker) ==
    LET held == RowsOf(holdings, ticker)
        quantity == Bought(ticker) - Sold(ticker)
    IN  /\ Cardinality(held) <= 1
        /\ held = {} <=> quantity = 0
        /\ \A r \in held :
              /\ r.quantity = quantity
              /\ RatMulInt(r.avg_entry_price, r.quantity)
                   = RatSub(RatInt(SumValue(trades, "BUY", ticker)),
                            C27_SoldCost(trades, ticker))

C27_HoldingsMatchTradeLog ==
    Quiescent => \A i \in 1..Len(trades) : C27_Consistent(trades[i].symbol)

(* C28: the Holding a recorded Trade created or updated is keyed by the     *)
(* symbol string stored on the Trade: two buys of one ticker in different   *)
(* letter case update one Holding, and a sell in either case finds it.      *)
C28_SellFinds(p) ==
    (\E r \in holdings : Upper(r.symbol) = Upper(call'[p].symbol))
        => call'[p].status # "NoSuchHolding"

C28_HoldingKeyedAsTrade ==
    /\ [](\A r \in holdings : \E i \in 1..Len(trades) : trades[i].symbol = r.symbol)
    /\ [](\A r, q \in holdings : Upper(r.symbol) = Upper(q.symbol) => r = q)
    /\ [][\A p \in Callers :
             (pc[p] = "idle" /\ pc'[p] # "idle" /\ call'[p].op = "SELL"
                /\ ValidTrade(call'[p].quantity, call'[p].price)) => C28_SellFinds(p)]_vars

(* C30: ledger operations touch only their own records: record_deposit and  *)
(* record_withdrawal append one capital flow and leave holdings and trades  *)
(* unchanged; a successful record_buy or record_sell appends exactly one    *)
(* Trade, changes only the Holding of the symbol it was given, and leaves   *)
(* the capital flows, hence net_contributed, and every other symbol's       *)
(* Holding unchanged.                                                       *)
C30_FlowStep(p) ==
    /\ pc[p] = "idle" /\ pc'[p] = "done"
    /\ call'[p].op \in {"DEPOSIT", "WITHDRAWAL"} /\ call'[p].status = "ok"

C30_TradeStep(p) ==
    /\ pc'[p] # pc[p] /\ pc'[p] # "idle"
    /\ call'[p].op \in {"BUY", "SELL"}

C30_Saves(p) ==
    \/ pc[p] = "idle" /\ pc'[p] = "buy_read"
    \/ pc[p] = "sell_save" /\ pc'[p] = "sell_read"

C30_OthersOf(rows, symbol) == {r \in rows : r.symbol # symbol}

C30_TouchOnlyOwnRecords ==
    /\ [][\A p \in Callers :
             /\ C30_FlowStep(p) =>
                   /\ Len(flows') = Len(flows) + 1
                   /\ \A i \in 1..Len(flows) : flows'[i] = flows[i]
                   /\ flows'[Len(flows')].type = call'[p].op
                   /\ UNCHANGED <<holdings, nextHoldingId, trades>>
             /\ C30_TradeStep(p) =>
                   /\ flows' = flows
                   /\ CapitalFlowTotal(flows', "DEPOSIT") - CapitalFlowTotal(flows', "WITHDRAWAL")
                        = CapitalFlowTotal(flows, "DEPOSIT") - CapitalFlowTotal(flows, "WITHDRAWAL")
                   /\ C30_OthersOf(holdings', call'[p].symbol)
                        = C30_OthersOf(holdings, call'[p].symbol)
                   /\ IF C30_Saves(p)
                      THEN /\ Len(trades') = Len(trades) + 1
                           /\ \A i \in 1..Len(trades) : trades'[i] = trades[i]
                      ELSE trades' = trades]_vars
    /\ [](\A p \in Callers :
             (pc[p] = "done" /\ call[p].op \in {"BUY", "SELL"} /\ call[p].status = "ok") =>
                 Cardinality({i \in 1..Len(trades) :
                                 trades[i].trade_id = call[p].trade_id}) = 1)

C30_Witness ==
    /\ pc["c1"] = "done" /\ call["c1"].op = "SELL" /\ call["c1"].status = "ok"
    /\ RowsOf(holdings, call["c1"].symbol) = {}
    /\ \E r \in holdings : r.symbol # call["c1"].symbol /\ r.quantity = 1
    /\ Len(trades) = 3

====
